---- MODULE Spec2Model ----
(***************************************************************************)
(* A model of jukeaudio.py, the async client of the Juke Audio REST API.   *)
(*                                                                         *)
(* Python str values are sequences of one-character strings, bytes values  *)
(* are sequences of numbers 0..255.  Every client function is one          *)
(* coroutine; its steps are the stretches of code between two awaits.      *)
(***************************************************************************)
EXTENDS Integers, Sequences, FiniteSets, TLC

(***************************************************************************)
(* Text                                                                    *)
(***************************************************************************)

\* Code points of the characters the credentials are made of ("e_acute" is
\* U+00E9 and "euro" is U+20AC: a character is named where it is not ASCII).
Ord(ch) ==
    CASE ch = "a" -> 97
      [] ch = "b" -> 98
      [] ch = "p" -> 112
      [] ch = "w" -> 119
      [] ch = "x" -> 120
      [] ch = ":" -> 58
      [] ch = "e_acute" -> 233
      [] ch = "euro" -> 8364

CredChars == {"a", "b", "p", "w", "x", ":", "e_acute", "euro"}

\* str.encode("utf-8") of one character (code points below 65536).
Utf8Char(cp) ==
    IF cp < 128 THEN <<cp>>
    ELSE IF cp < 2048 THEN <<192 + (cp \div 64), 128 + (cp % 64)>>
    ELSE <<224 + (cp \div 4096), 128 + ((cp \div 64) % 64), 128 + (cp % 64)>>

RECURSIVE Utf8Encode(_)
Utf8Encode(s) ==
    IF s = <<>> THEN <<>>
    ELSE Utf8Char(Ord(Head(s))) \o Utf8Encode(Tail(s))

B64Alphabet ==
    << "A","B","C","D","E","F","G","H","I","J","K","L","M","N","O","P",
       "Q","R","S","T","U","V","W","X","Y","Z","a","b","c","d","e","f",
       "g","h","i","j","k","l","m","n","o","p","q","r","s","t","u","v",
       "w","x","y","z","0","1","2","3","4","5","6","7","8","9","+","/" >>

B64Char(v) == B64Alphabet[v + 1]

\* base64.b64encode(bs).decode("utf-8"): the output is ASCII, so the final
\* decode maps each output byte to the character of the same code.
RECURSIVE b64encode(_)
b64encode(bs) ==
    IF Len(bs) = 0 THEN <<>>
    ELSE IF Len(bs) = 1 THEN
        << B64Char(bs[1] \div 4), B64Char((bs[1] % 4) * 16), "=", "=" >>
    ELSE IF Len(bs) = 2 THEN
        << B64Char(bs[1] \div 4),
           B64Char((bs[1] % 4) * 16 + (bs[2] \div 16)),
           B64Char((bs[2] % 16) * 4), "=" >>
    ELSE
        << B64Char(bs[1] \div 4),
           B64Char((bs[1] % 4) * 16 + (bs[2] \div 16)),
           B64Char((bs[2] % 16) * 4 + (bs[3] \div 64)),
           B64Char(bs[3] % 64) >> \o b64encode(SubSeq(bs, 4, Len(bs)))

\* The module constant api_version = "v2".
api_version == <<"v", "2">>

\* A variant that joins the credentials without the separating colon.
create_auth_header_nocolon(user_name, password) ==
    b64encode(Utf8Encode(user_name \o password))

\* create_auth_header: base64 of the UTF-8 bytes of f"{user_name}:{password}".
create_auth_header(user_name, password) ==
    b64encode(Utf8Encode(user_name \o <<":">> \o password))

\* str.startswith
startswith(s, prefix) ==
    /\ Len(s) >= Len(prefix)
    /\ SubSeq(s, 1, Len(prefix)) = prefix

\* A variant that accepts the bare version without the trailing dot.
is_juke_compatible_nodot(ver) == startswith(ver, api_version)

\* is_juke_compatible: ver.startswith(f"{api_version}.")
is_juke_compatible(ver) == startswith(ver, api_version \o <<".">>)

(***************************************************************************)
(* Values                                                                  *)
(***************************************************************************)

\* An optional str argument: None, or a str.
None == [none |-> TRUE, s |-> <<>>]
Some(s) == [none |-> FALSE, s |-> s]

\* A response body.  kind: "bytes" (not decodable in the response's charset),
\* "empty", "text" (decodable, not JSON), "array", "object" (JSON documents;
\* an object lists its keys and the values of the two keys the client reads).
Body(kind, keys, versions, available_types) ==
    [kind |-> kind, keys |-> keys, versions |-> versions,
     available_types |-> available_types]
NoBody == Body("none", {}, <<>>, <<>>)

\* What a call hands back: a Python value.
NoValue == [tag |-> "none", bool |-> FALSE, body |-> NoBody, list |-> <<>>]
BoolValue(b) == [tag |-> "bool", bool |-> b, body |-> NoBody, list |-> <<>>]
BodyValue(b) == [tag |-> "body", bool |-> FALSE, body |-> b, list |-> <<>>]
ListValue(l) == [tag |-> "list", bool |-> FALSE, body |-> NoBody, list |-> l]
PyNone == [tag |-> "pynone", bool |-> FALSE, body |-> NoBody, list |-> <<>>]

\* How a stretch of code ends: still running, a return, or a raise.
Running == [kind |-> "none", exc |-> "none", cause |-> "none", value |-> NoValue]
Return(v) == [kind |-> "return", exc |-> "none", cause |-> "none", value |-> v]
Raise(exc) == [kind |-> "raise", exc |-> exc, cause |-> "none", value |-> NoValue]
RaiseFrom(exc, cause) ==
    [kind |-> "raise", exc |-> exc, cause |-> cause, value |-> NoValue]

(***************************************************************************)
(* The HTTP library as the client uses it                                  *)
(***************************************************************************)

\* The exception classes that derive from aiohttp.ClientError, the one class
\* the except clauses name.  asyncio's TimeoutError (the session's default
\* total timeout), json.JSONDecodeError, UnicodeDecodeError, KeyError,
\* IndexError and TypeError do not.
ClientErrorClasses ==
    {"ClientConnectorError", "ClientConnectorDNSError",
     "ServerDisconnectedError", "ClientResponseError", "ClientPayloadError",
     "ContentTypeError"}

\* The base class of each exception class of the package (.exceptions).
PackageExceptionBase ==
    [AuthenticationException |-> "Exception",
     UnexpectedException |-> "Exception"]

\* except aiohttp.ClientError: does the clause catch exc?
isClientError(exc) ==
    \/ exc \in ClientErrorClasses
    \/ /\ exc \in DOMAIN PackageExceptionBase
       /\ PackageExceptionBase[exc] \in ClientErrorClasses \cup {"ClientError"}

\* What session.get / session.put raises when the transport fails before a
\* response is there.
ConnectFailures == {"refused", "dns", "dropped", "timeout", "malformed"}
ConnectError(kind) ==
    CASE kind = "refused" -> "ClientConnectorError"
      [] kind = "dns" -> "ClientConnectorDNSError"
      [] kind = "dropped" -> "ServerDisconnectedError"
      [] kind = "timeout" -> "TimeoutError"
      [] kind = "malformed" -> "ClientResponseError"

\* What response.json() / response.text() raises when the transport fails
\* while the body is read.
ReadFailures == {"dropped", "timeout"}
ReadError(kind) ==
    CASE kind = "dropped" -> "ClientPayloadError"
      [] kind = "timeout" -> "TimeoutError"

\* await response.text(): the body decoded in the response's charset.
text(response) ==
    IF response.body.kind = "bytes" THEN Raise("UnicodeDecodeError")
    ELSE Return(BodyValue(response.body))

\* await response.json(): the content type is checked, an empty body is
\* None, otherwise the body is decoded and parsed.
json(response) ==
    IF response.ctype # "json" THEN Raise("ContentTypeError")
    ELSE IF response.body.kind = "empty" THEN Return(PyNone)
    ELSE IF response.body.kind = "bytes" THEN Raise("UnicodeDecodeError")
    ELSE IF response.body.kind = "text" THEN Raise("JSONDecodeError")
    ELSE Return(BodyValue(response.body))

\* contents[key] where key is a str and the value under it a list.
GetItem(contents, key) ==
    IF contents.kind # "return" THEN contents
    ELSE IF contents.value.tag = "pynone" THEN Raise("TypeError")
    ELSE IF contents.value.body.kind = "array" THEN Raise("TypeError")
    ELSE IF key \notin contents.value.body.keys THEN Raise("KeyError")
    ELSE IF key = "versions" THEN Return(ListValue(contents.value.body.versions))
    ELSE Return(ListValue(contents.value.body.available_types))

(***************************************************************************)
(* State                                                                   *)
(***************************************************************************)

\* The number of invocations that may be in flight together.
NumCalls == 2
Calls == 1 .. NumCalls

VARIABLES
    pc,         \* pc[c]: "idle", "awaiting" (in session.get / session.put),
                \*   "reading" (in response.json() / response.text()),
                \*   "exiting" (leaving the async with blocks), "done"
    op,         \* op[c]: the function invoked
    args,       \* args[c]: its arguments
    sessOf,     \* sessOf[c]: the ClientSession the call created (0: none yet)
    open,       \* the ClientSession objects that are not closed
    created,    \* how many ClientSession objects were constructed
    used,       \* <<s, c>>: call c issued a request on session s
    requests,   \* requests[c]: the requests the call issued, in order
    response,   \* response[c]: the response the call got
    decoded,    \* decoded[c]: the call decoded the body of its response
    fault,      \* fault[c]: the transport failure the call met ("none")
    pending,    \* pending[c]: the return or raise that is leaving the blocks
    outcome     \* outcome[c]: what the caller gets

vars == << pc, op, args, sessOf, open, created, used, requests, response,
           decoded, fault, pending, outcome >>

NoArgs ==
    [ip |-> <<>>, username |-> <<>>, password |-> <<>>, id |-> <<>>,
     input |-> None, volume |-> 0]
NoResponse == [got |-> FALSE, status |-> 0, ctype |-> "none", body |-> NoBody]
NoData == [kind |-> "none", volume |-> 0, text |-> <<>>]

Init ==
    /\ pc = [c \in Calls |-> "idle"]
    /\ op = [c \in Calls |-> "none"]
    /\ args = [c \in Calls |-> NoArgs]
    /\ sessOf = [c \in Calls |-> 0]
    /\ open = {}
    /\ created = 0
    /\ used = {}
    /\ requests = [c \in Calls |-> <<>>]
    /\ response = [c \in Calls |-> NoResponse]
    /\ decoded = [c \in Calls |-> FALSE]
    /\ fault = [c \in Calls |-> "none"]
    /\ pending = [c \in Calls |-> Running]
    /\ outcome = [c \in Calls |-> Running]

(***************************************************************************)
(* Requests                                                                *)
(***************************************************************************)

\* f"http://{ip_address}/api/"
ApiRoot(ip_address) ==
    <<"h","t","t","p",":","/","/">> \o ip_address \o <<"/","a","p","i","/">>

\* f"http://{ip_address}/api/{api_version}"
ApiBase(ip_address) == ApiRoot(ip_address) \o api_version

Devices == <<"/","d","e","v","i","c","e","s","/">>
Zones == <<"/","z","o","n","e","s">>
Inputs == <<"/","i","n","p","u","t","s">>

\* A variant that percent-encodes the id before it enters the path.
RECURSIVE Quoted(_)
Quoted(id) ==
    IF id = <<>> THEN <<>>
    ELSE (CASE Head(id) = "/" -> <<"%","2","F">>
            [] Head(id) = " " -> <<"%","2","0">>
            [] OTHER -> <<Head(id)>>) \o Quoted(Tail(id))

\* An id in an f-string: the str as it is.
Interpolate(id) == id

\* The URL each function builds.
Url(name, ip_address, id) ==
    CASE name = "can_connect_to_juke" -> ApiRoot(ip_address)
      [] name = "get_devices" -> ApiBase(ip_address) \o Devices
      [] name = "get_device_connection_info" ->
            ApiBase(ip_address) \o Devices \o Interpolate(id)
                \o <<"/","c","o","n","n","e","c","t","i","o","n">>
      [] name = "get_device_attributes" ->
            ApiBase(ip_address) \o Devices \o Interpolate(id)
                \o <<"/","a","t","t","r","i","b","u","t","e","s">>
      [] name = "get_device_config" ->
            ApiBase(ip_address) \o Devices \o Interpolate(id)
                \o <<"/","c","o","n","f","i","g">>
      [] name = "get_device_metrics" ->
            ApiBase(ip_address) \o Devices \o Interpolate(id)
                \o <<"/","m","e","t","r","i","c","s">>
      [] name = "get_zones" -> ApiBase(ip_address) \o Zones
      [] name = "get_zone_config" ->
            ApiBase(ip_address) \o Zones \o <<"/">> \o Interpolate(id)
      [] name = "set_zone_volume" ->
            ApiBase(ip_address) \o Zones \o <<"/">> \o Interpolate(id)
                \o <<"/","v","o","l","u","m","e">>
      [] name = "set_zone_input" ->
            ApiBase(ip_address) \o Zones \o <<"/">> \o Interpolate(id)
                \o <<"/","i","n","p","u","t">>
      [] name = "get_inputs" -> ApiBase(ip_address) \o Inputs
      [] name = "get_input_config" ->
            ApiBase(ip_address) \o Inputs \o <<"/">> \o Interpolate(id)
      [] name = "get_available_inputs" ->
            ApiBase(ip_address) \o Inputs \o <<"/">> \o Interpolate(id)
                \o <<"/","a","v","a","i","l","a","b","l","e","-",
                     "t","y","p","e","s">>

\* hdr = {"Authorization": f"Bearer {create_auth_header(username, password)}"}
AuthHeaders(username, password) ==
    << << "Authorization",
          <<"B","e","a","r","e","r"," ">>
              \o create_auth_header(username, password) >> >>

\* set_zone_volume passes data = {"volume": volume}.
VolumeData(volume) == [kind |-> "form", volume |-> volume, text |-> <<>>]

\* set_zone_input passes a str: "[]" or the input between [" and "].
InputData(input) ==
    [kind |-> "raw", volume |-> 0,
     text |-> IF ~input.none /\ Len(input.s) > 0
              THEN <<"[", "\"">> \o input.s \o <<"\"", "]">>
              ELSE <<"[", "]">>]

(***************************************************************************)
(* The client functions                                                    *)
(***************************************************************************)

\* aiohttp.ClientSession(...): a new object on every call.
NewSession == created + 1

\* The first stretch of every function once it is invoked, up to the await
\* of session.get / session.put: the session is constructed and entered, the
\* request issued.
Begin(c, name, a, verb, headers, data) ==
    /\ LET s == NewSession IN
        /\ created' = created + 1
        /\ open' = open \cup {s}
        /\ sessOf' = [sessOf EXCEPT ![c] = s]
        /\ used' = used \cup {<<s, c>>}
        /\ requests' = [requests EXCEPT ![c] =
              Append(@, [verb |-> verb, url |-> Url(name, a.ip, a.id),
                         headers |-> headers, data |-> data, session |-> s])]
    /\ op' = [op EXCEPT ![c] = name]
    /\ args' = [args EXCEPT ![c] = a]
    /\ pc' = [pc EXCEPT ![c] = "awaiting"]
    /\ UNCHANGED << response, decoded, fault, pending, outcome >>

can_connect_to_juke(c, ip_address) ==
    /\ pc[c] = "idle"
    /\ Begin(c, "can_connect_to_juke", [NoArgs EXCEPT !.ip = ip_address],
             "GET", <<>>, NoData)

\* The functions that take the address and the credentials.
Plain(c, name, ip_address, username, password) ==
    Begin(c, name,
          [NoArgs EXCEPT !.ip = ip_address, !.username = username,
                         !.password = password],
          "GET", AuthHeaders(username, password), NoData)

\* The functions that take an id as well.
WithId(c, name, ip_address, username, password, id) ==
    Begin(c, name,
          [NoArgs EXCEPT !.ip = ip_address, !.username = username,
                         !.password = password, !.id = id],
          "GET", AuthHeaders(username, password), NoData)

get_devices(c, ip_address, username, password) ==
    /\ pc[c] = "idle"
    /\ Plain(c, "get_devices", ip_address, username, password)

get_device_connection_info(c, ip_address, username, password, device_id) ==
    /\ pc[c] = "idle"
    /\ WithId(c, "get_device_connection_info", ip_address, username, password,
              device_id)

get_device_attributes(c, ip_address, username, password, device_id) ==
    /\ pc[c] = "idle"
    /\ WithId(c, "get_device_attributes", ip_address, username, password,
              device_id)

get_device_config(c, ip_address, username, password, device_id) ==
    /\ pc[c] = "idle"
    /\ WithId(c, "get_device_config", ip_address, username, password, device_id)

get_device_metrics(c, ip_address, username, password, device_id) ==
    /\ pc[c] = "idle"
    /\ WithId(c, "get_device_metrics", ip_address, username, password, device_id)

get_zones(c, ip_address, username, password) ==
    /\ pc[c] = "idle"
    /\ Plain(c, "get_zones", ip_address, username, password)

get_zone_config(c, ip_address, username, password, zone_id) ==
    /\ pc[c] = "idle"
    /\ WithId(c, "get_zone_config", ip_address, username, password, zone_id)

set_zone_volume(c, ip_address, username, password, zone_id, volume) ==
    /\ pc[c] = "idle"
    /\ Begin(c, "set_zone_volume",
             [NoArgs EXCEPT !.ip = ip_address, !.username = username,
                            !.password = password, !.id = zone_id,
                            !.volume = volume],
             "PUT", AuthHeaders(username, password), VolumeData(volume))

set_zone_input(c, ip_address, username, password, zone_id, input) ==
    /\ pc[c] = "idle"
    /\ Begin(c, "set_zone_input",
             [NoArgs EXCEPT !.ip = ip_address, !.username = username,
                            !.password = password, !.id = zone_id,
                            !.input = input],
             "PUT", AuthHeaders(username, password), InputData(input))

get_inputs(c, ip_address, username, password) ==
    /\ pc[c] = "idle"
    /\ Plain(c, "get_inputs", ip_address, username, password)

get_input_config(c, ip_address, username, password, input_id) ==
    /\ pc[c] = "idle"
    /\ WithId(c, "get_input_config", ip_address, username, password, input_id)

get_available_inputs(c, ip_address, username, password, input_id) ==
    /\ pc[c] = "idle"
    /\ WithId(c, "get_available_inputs", ip_address, username, password,
              input_id)

Authenticated ==
    {"get_devices", "get_device_connection_info", "get_device_attributes",
     "get_device_config", "get_device_metrics", "get_zones",
     "get_zone_config", "set_zone_volume", "set_zone_input", "get_inputs",
     "get_input_config", "get_available_inputs"}

\* A variant that takes only 401 and 403 for a failure.
RejectsAuthOnly(name, status) ==
    name \in Authenticated /\ status \in {401, 403}

\* A variant in which the probe checks the status as the others do.
RejectsEverywhere(name, status) == status # 200

\* if response.status != 200: raise AuthenticationException.  The probe has
\* no such test.
Rejects(name, status) == name \in Authenticated /\ status # 200

\* session.get / session.put raises: the transport failed.
ConnectFail(c, kind) ==
    /\ pc[c] = "awaiting"
    /\ pending' = [pending EXCEPT ![c] = Raise(ConnectError(kind))]
    /\ fault' = [fault EXCEPT ![c] = kind]
    /\ pc' = [pc EXCEPT ![c] = "exiting"]
    /\ UNCHANGED << op, args, sessOf, open, created, used, requests,
                    response, decoded, outcome >>

\* session.get / session.put delivers the response; the status is tested
\* with no await in between.
Respond(c, status, ctype, body) ==
    /\ pc[c] = "awaiting"
    /\ response' = [response EXCEPT ![c] =
          [got |-> TRUE, status |-> status, ctype |-> ctype, body |-> body]]
    /\ IF Rejects(op[c], status)
       THEN /\ pending' = [pending EXCEPT ![c] =
                   Raise("AuthenticationException")]
            /\ pc' = [pc EXCEPT ![c] = "exiting"]
       ELSE /\ pc' = [pc EXCEPT ![c] = "reading"]
            /\ UNCHANGED pending
    /\ UNCHANGED << op, args, sessOf, open, created, used, requests,
                    decoded, fault, outcome >>

\* response.json() / response.text() raises: the transport failed while
\* the body was read.
ReadFail(c, kind) ==
    /\ pc[c] = "reading"
    /\ decoded' = [decoded EXCEPT ![c] = TRUE]
    /\ pending' = [pending EXCEPT ![c] = Raise(ReadError(kind))]
    /\ fault' = [fault EXCEPT ![c] = kind]
    /\ pc' = [pc EXCEPT ![c] = "exiting"]
    /\ UNCHANGED << op, args, sessOf, open, created, used, requests,
                    response, outcome >>

\* What the function makes of the body once it is read.
Contents(name, r) ==
    CASE name = "can_connect_to_juke" ->
            LET v == GetItem(json(r), "versions") IN
                IF v.kind # "return" THEN v
                ELSE IF v.value.list = <<>> THEN Raise("IndexError")
                ELSE Return(BoolValue(is_juke_compatible(v.value.list[1])))
      [] name = "get_available_inputs" ->
            GetItem(json(r), "available_types")
      [] name \in {"set_zone_volume", "set_zone_input"} -> text(r)
      [] OTHER -> json(r)

DecodeErrors == {"ContentTypeError", "UnicodeDecodeError", "JSONDecodeError"}

\* response.json() / response.text() completes, and the function returns
\* what it makes of the result, or raises.
Decode(c) ==
    /\ pc[c] = "reading"
    /\ decoded' = [decoded EXCEPT ![c] = TRUE]
    /\ LET res == Contents(op[c], response[c]) IN
        /\ pending' = [pending EXCEPT ![c] = res]
        /\ fault' = [fault EXCEPT ![c] =
              IF res.kind = "raise" /\ res.exc \in DecodeErrors
              THEN "decode" ELSE @]
    /\ pc' = [pc EXCEPT ![c] = "exiting"]
    /\ UNCHANGED << op, args, sessOf, open, created, used, requests,
                    response, outcome >>

\* The except clause of the function, met by what leaves the try block.
Handle(name, p) ==
    IF p.kind = "raise" /\ isClientError(p.exc)
    THEN IF name = "can_connect_to_juke"
         THEN [Return(BoolValue(FALSE)) EXCEPT !.cause = p.exc]
         ELSE RaiseFrom("UnexpectedException", p.exc)
    ELSE p

\* A variant that leaves the session open when an exception passes.
LeakOnRaise(c) ==
    IF pending[c].kind = "raise" THEN open ELSE open \ {sessOf[c]}

\* async with aiohttp.ClientSession(...) as session: leaving the block
\* closes the session, however the block is left.
CloseSession(c) == open \ {sessOf[c]}

\* The return or the exception leaves the two async with blocks, then meets
\* the except clause, and the caller gets the outcome.
Exit(c) ==
    /\ pc[c] = "exiting"
    /\ open' = CloseSession(c)
    /\ outcome' = [outcome EXCEPT ![c] = Handle(op[c], pending[c])]
    /\ pc' = [pc EXCEPT ![c] = "done"]
    /\ UNCHANGED << op, args, sessOf, created, used, requests, response,
                    decoded, fault, pending >>

(***************************************************************************)
(* Inputs                                                                  *)
(***************************************************************************)

Hosts == { <<"1","0",".","0",".","0",".","5">> }
Usernames == { <<"a">>, <<"e_acute","b">>, <<"euro">> }
Passwords == { <<>>, <<"x">>, <<"p",":","w">> }
Ids == { <<"z","1">>, <<"a","/","b"," ","c">> }
InputArgs ==
    { None, Some(<<>>), Some(<<"a","u","x","1">>),
      Some(<<"a","\"","b">>), Some(<<"a","\\","b">>) }
Volumes == {0, 50}

Statuses == {200, 204, 401, 500}
ContentTypes == {"json", "other"}

V(major, minor) == <<"v", major, ".", minor>>
VersionLists ==
    { <<>>, <<V("2","3")>>, <<V("2","1")>>, <<V("1","9")>>, <<V("1","0")>>,
      << <<"v","2">> >>, << <<"v","2","0",".","1">> >>,
      <<V("1","9"), V("2","3")>>, <<V("2","3"), V("1","0")>> }
AvailableTypes ==
    << <<"b","l","u","e","t","o","o","t","h">>, <<"o","p","t","i","c","a","l">> >>

Bodies ==
    { Body("bytes", {}, <<>>, <<>>), Body("empty", {}, <<>>, <<>>),
      Body("text", {}, <<>>, <<>>), Body("array", {}, <<>>, <<>>),
      Body("object", {}, <<>>, <<>>),
      Body("object", {"available_types"}, <<>>, AvailableTypes) }
    \cup { Body("object", {"versions"}, vl, <<>>) : vl \in VersionLists }

\* One invocation, with every function, argument and server behaviour.
Next ==
    \E c \in {1} :
        \/ \E ip \in Hosts : can_connect_to_juke(c, ip)
        \/ \E ip \in Hosts, u \in Usernames, p \in Passwords :
            \/ get_devices(c, ip, u, p)
            \/ get_zones(c, ip, u, p)
            \/ get_inputs(c, ip, u, p)
            \/ \E id \in Ids :
                \/ get_device_connection_info(c, ip, u, p, id)
                \/ get_device_attributes(c, ip, u, p, id)
                \/ get_device_config(c, ip, u, p, id)
                \/ get_device_metrics(c, ip, u, p, id)
                \/ get_zone_config(c, ip, u, p, id)
                \/ \E volume \in Volumes :
                      set_zone_volume(c, ip, u, p, id, volume)
                \/ \E input \in InputArgs :
                      set_zone_input(c, ip, u, p, id, input)
                \/ get_input_config(c, ip, u, p, id)
                \/ get_available_inputs(c, ip, u, p, id)
        \/ \E kind \in ConnectFailures : ConnectFail(c, kind)
        \/ \E status \in Statuses, ctype \in ContentTypes, body \in Bodies :
              Respond(c, status, ctype, body)
        \/ \E kind \in ReadFailures : ReadFail(c, kind)
        \/ Decode(c)
        \/ Exit(c)

Spec == Init /\ [][Next]_vars

\* Invocations in flight together: a probe, a read, a write and the read
\* that unwraps its result, against a server that answers or fails.
ConcBody == Body("object", {"versions", "available_types"},
                 <<V("2","3")>>, AvailableTypes)

NextConc ==
    \E c \in Calls :
        \/ \E ip \in Hosts : can_connect_to_juke(c, ip)
        \/ \E ip \in Hosts :
              get_devices(c, ip, <<"a">>, <<"x">>)
        \/ \E ip \in Hosts :
              set_zone_input(c, ip, <<"a">>, <<"x">>, <<"z","1">>,
                             Some(<<"a","u","x","1">>))
        \/ \E ip \in Hosts :
              get_available_inputs(c, ip, <<"a">>, <<"x">>, <<"z","1">>)
        \/ ConnectFail(c, "refused")
        \/ \E status \in {200, 401} : Respond(c, status, "json", ConcBody)
        \/ ReadFail(c, "dropped")
        \/ Decode(c)
        \/ Exit(c)

SpecConc == Init /\ [][NextConc]_vars

(***************************************************************************)
(* Properties                                                              *)
(***************************************************************************)

Request(c) == requests[c][1]
Started(c) == pc[c] # "idle"
IsDone(c) == pc[c] = "done"

\* C1: an authenticated function whose response has a status other than 200
\* raises AuthenticationException, whatever the status and the body: it
\* does not read the body, returns nothing and does not raise
\* UnexpectedException.
C1_NonOkStatusRaisesAuthentication ==
    \A c \in Calls :
        (op[c] \in Authenticated /\ response[c].got
                                 /\ response[c].status # 200) =>
            /\ ~decoded[c]
            /\ pc[c] \in {"exiting", "done"}
            /\ pending[c] = Raise("AuthenticationException")
            /\ IsDone(c) => outcome[c] = Raise("AuthenticationException")

C1_Witness ==
    \E c \in Calls :
        /\ op[c] = "set_zone_input"
        /\ response[c].status = 500
        /\ response[c].body.kind = "object"
        /\ IsDone(c)
        /\ outcome[c].exc = "AuthenticationException"

\* C2: an authenticated function that meets a transport failure (refused,
\* DNS, dropped, timeout, malformed response, body that does not decode)
\* raises UnexpectedException from the transport's exception.
C2_TransportFailureRaisesUnexpected ==
    \A c \in Calls :
        (op[c] \in Authenticated /\ fault[c] # "none" /\ IsDone(c)) =>
            outcome[c] = RaiseFrom("UnexpectedException", pending[c].exc)

\* C3: the probe never raises: it returns a boolean, and False when the
\* transport failed.
C3_ProbeNeverRaises ==
    \A c \in Calls :
        (op[c] = "can_connect_to_juke" /\ IsDone(c)) =>
            /\ outcome[c].kind = "return"
            /\ outcome[c].value.tag = "bool"
            /\ fault[c] # "none" => ~outcome[c].value.bool

\* The first three characters are v, 2 and the dot.
HasV2DotPrefix(ver) ==
    /\ Len(ver) >= 3
    /\ ver[1] = "v"
    /\ ver[2] = "2"
    /\ ver[3] = "."

ProbeDecoded(c) ==
    /\ op[c] = "can_connect_to_juke"
    /\ IsDone(c)
    /\ fault[c] = "none"
    /\ response[c].ctype = "json"
    /\ response[c].body.kind = "object"
    /\ "versions" \in response[c].body.keys
    /\ response[c].body.versions # <<>>

\* C4: a probe that decoded its response returns True exactly when the first
\* element of "versions" starts with "v2."; later elements play no part.
C4_ProbeTrueIffFirstVersionV2Dot ==
    \A c \in Calls :
        ProbeDecoded(c) =>
            outcome[c] =
                Return(BoolValue(HasV2DotPrefix(response[c].body.versions[1])))

C4_Witness ==
    \E c \in Calls :
        /\ ProbeDecoded(c)
        /\ response[c].body.versions = << <<"v","2">> >>
        /\ outcome[c] = Return(BoolValue(FALSE))

\* Reading a JSON string literal of t from position i, past the opening
\* quote; acc holds the characters read.  The two-character escapes stand
\* for the character they name (BS, FF, LF, CR, TAB: the control characters).
RECURSIVE JsonString(_, _, _)
JsonString(t, i, acc) ==
    IF i > Len(t) THEN [ok |-> FALSE, s |-> acc, next |-> i]
    ELSE IF t[i] = "\"" THEN [ok |-> TRUE, s |-> acc, next |-> i + 1]
    ELSE IF t[i] = "\\" THEN
        IF i + 1 > Len(t) THEN [ok |-> FALSE, s |-> acc, next |-> i]
        ELSE IF t[i + 1] \in {"\"", "\\", "/"}
            THEN JsonString(t, i + 2, Append(acc, t[i + 1]))
        ELSE IF t[i + 1] \in {"b", "f", "n", "r", "t"}
            THEN JsonString(t, i + 2, Append(acc,
                    CASE t[i + 1] = "b" -> "BS" [] t[i + 1] = "f" -> "FF"
                      [] t[i + 1] = "n" -> "LF" [] t[i + 1] = "r" -> "CR"
                      [] t[i + 1] = "t" -> "TAB"))
        ELSE [ok |-> FALSE, s |-> acc, next |-> i]
    ELSE JsonString(t, i + 1, Append(acc, t[i]))

\* Reading t as a JSON array of no element or of one string.
JsonStringArray(t) ==
    IF t = <<"[", "]">> THEN [ok |-> TRUE, items |-> <<>>]
    ELSE IF Len(t) >= 4 /\ t[1] = "[" /\ t[2] = "\"" THEN
        LET r == JsonString(t, 3, <<>>) IN
            IF r.ok /\ r.next = Len(t) /\ t[Len(t)] = "]"
            THEN [ok |-> TRUE, items |-> <<r.s>>]
            ELSE [ok |-> FALSE, items |-> <<>>]
    ELSE [ok |-> FALSE, items |-> <<>>]

\* C5: the body set_zone_input sends is a JSON array: empty when the input
\* is None or "", otherwise of the one string that is the input, whatever
\* characters the input holds.
C5_InputBodyIsJsonArrayOfInput ==
    \A c \in Calls :
        op[c] = "set_zone_input" =>
            JsonStringArray(Request(c).data.text) =
                [ok |-> TRUE,
                 items |-> IF args[c].input.none \/ args[c].input.s = <<>>
                           THEN <<>> ELSE <<args[c].input.s>>]

\* C6: an authenticated function ends with a payload, with
\* AuthenticationException or with UnexpectedException, and nothing else.
C6_OnlyThreeOutcomes ==
    \A c \in Calls :
        (op[c] \in Authenticated /\ IsDone(c)) =>
            \/ outcome[c].kind = "return"
            \/ /\ outcome[c].kind = "raise"
               /\ outcome[c].exc \in
                     {"AuthenticationException", "UnexpectedException"}

\* s occurs in t as a run of consecutive characters.
Contains(t, s) ==
    \E i \in 1 .. (Len(t) - Len(s) + 1) : SubSeq(t, i, i + Len(s) - 1) = s

TakesId ==
    Authenticated \ {"get_devices", "get_zones", "get_inputs"}

C8_SessionPerCallAlwaysClosed ==
    /\ \A c \in Calls : Started(c) => sessOf[c] # 0
    /\ \A c \in Calls : IsDone(c) => sessOf[c] \notin open
    /\ \A c, d \in Calls :
          (c # d /\ Started(c) /\ Started(d)) => sessOf[c] # sessOf[d]
    /\ \A x, y \in used : x[1] = y[1] => x[2] = y[2]
    /\ (\A c \in Calls : pc[c] \in {"idle", "done"}) => open = {}

C8_Witness ==
    \E c, d \in Calls :
        /\ IsDone(c) /\ outcome[c].exc = "UnexpectedException"
        /\ IsDone(d) /\ outcome[d].kind = "return"
        /\ op[d] = "can_connect_to_juke" /\ outcome[d].cause # "none"
        /\ open = {}

\* Inverses of the encodings.
B64Index(ch) == (CHOOSE i \in 1 .. 64 : B64Alphabet[i] = ch) - 1

RECURSIVE B64Decode(_)
B64Decode(cs) ==
    IF cs = <<>> THEN <<>>
    ELSE LET a == B64Index(cs[1])
             b == B64Index(cs[2])
         IN  IF cs[3] = "=" THEN << a * 4 + (b \div 16) >>
             ELSE IF cs[4] = "=" THEN
                << a * 4 + (b \div 16),
                   (b % 16) * 16 + (B64Index(cs[3]) \div 4) >>
             ELSE
                << a * 4 + (b \div 16),
                   (b % 16) * 16 + (B64Index(cs[3]) \div 4),
                   (B64Index(cs[3]) % 4) * 64 + B64Index(cs[4]) >>
                    \o B64Decode(SubSeq(cs, 5, Len(cs)))

Chr(cp) == CHOOSE ch \in CredChars : Ord(ch) = cp

RECURSIVE Utf8Decode(_)
Utf8Decode(bs) ==
    IF bs = <<>> THEN <<>>
    ELSE IF bs[1] < 128 THEN <<Chr(bs[1])>> \o Utf8Decode(Tail(bs))
    ELSE IF bs[1] < 224 THEN
        <<Chr((bs[1] - 192) * 64 + (bs[2] - 128))>>
            \o Utf8Decode(SubSeq(bs, 3, Len(bs)))
    ELSE
        <<Chr((bs[1] - 224) * 4096 + (bs[2] - 128) * 64 + (bs[3] - 128))>>
            \o Utf8Decode(SubSeq(bs, 4, Len(bs)))

BearerPrefix == <<"B","e","a","r","e","r"," ">>

\* C9: every authenticated function sends the one header Authorization:
\* Bearer <token>, and the token, base64-decoded, is the username, a colon
\* and the password.
C9_BearerTokenDecodesToCredentials ==
    \A c \in Calls :
        op[c] \in Authenticated =>
            LET h == Request(c).headers IN
                /\ Len(h) = 1
                /\ h[1][1] = "Authorization"
                /\ startswith(h[1][2], BearerPrefix)
                /\ LET token == SubSeq(h[1][2], Len(BearerPrefix) + 1,
                                       Len(h[1][2]))
                   IN  /\ Len(token) % 4 = 0
                       /\ Utf8Decode(B64Decode(token)) =
                             args[c].username \o <<":">> \o args[c].password

C9_Witness ==
    \E c \in Calls :
        /\ op[c] = "get_input_config"
        /\ args[c].username = <<"e_acute","b">>
        /\ args[c].password = <<"p",":","w">>
        /\ IsDone(c)
        /\ Request(c).headers[1][2] =
              BearerPrefix \o <<"w","6","l","i","O","n","A","6","d","w","=","=">>

\* C10: the probe does not look at the status: with a status other than 200
\* and a body whose first version starts with "v2." it returns True, and it
\* never raises AuthenticationException; an authenticated function reads
\* the body of no response whose status is not 200.
C10_ProbeIgnoresStatus ==
    \A c \in Calls :
        /\ (ProbeDecoded(c) /\ response[c].status # 200
                /\ HasV2DotPrefix(response[c].body.versions[1])) =>
              outcome[c] = Return(BoolValue(TRUE))
        /\ (op[c] = "can_connect_to_juke" /\ response[c].got) =>
              /\ pending[c].exc # "AuthenticationException"
              /\ pc[c] = "reading" \/ decoded[c]
        /\ (op[c] \in Authenticated /\ (pc[c] = "reading" \/ decoded[c])) =>
              response[c].status = 200

C10_Witness ==
    \E c \in Calls :
        /\ ProbeDecoded(c)
        /\ response[c].status = 500
        /\ response[c].body.versions = <<V("2","1")>>
        /\ outcome[c] = Return(BoolValue(TRUE))

====
